---- MODULE Spec2Model ----
(***************************************************************************)
(* Model of the clinical assertion classifier service: the process-wide    *)
(* model cache of app/model.py (load_model, predict, predict_batch,        *)
(* is_model_loaded), the request/response schemas of app/schemas.py and    *)
(* the HTTP handlers and lifespan of app/main.py.                          *)
(*                                                                         *)
(* A Python value that may be None is a sequence of length 0 (None) or 1   *)
(* (the value).  A sentence is the sequence of its word ids; a score is a  *)
(* fraction <<numerator, denominator>>, and <<0, 0>> is the float NaN.     *)
(* Handlers run one at a time on the event loop (none of them awaits):     *)
(* inflight is the request being handled, last the outcome of the last     *)
(* completed operation until its caller has taken it.                      *)
(***************************************************************************)
EXTENDS Integers, Sequences, FiniteSets, TLC

VARIABLES _model, _tokenizer, _device, _label_mapping,
          cuda_available, hub_id2label, phase, viaLifespan, loadSucceeded,
          inflight, last

vars == <<_model, _tokenizer, _device, _label_mapping,
          cuda_available, hub_id2label, phase, viaLifespan, loadSucceeded,
          inflight, last>>

(* ---------------------------- bounds ----------------------------------- *)

MaxSentenceLen == 1
MaxBatch == 2

(* ----------------------- values and inputs ----------------------------- *)

None == <<>>

Some(x) == <<x>>

\* number of classes the classifier emits (the 3-class default table)
NumLabels == 3

MAX_LENGTH == 512

DefaultLabelMapping == (0 :> "PRESENT" @@ 1 :> "ABSENT" @@ 2 :> "CONDITIONAL")

\* id2label tables a fetched model configuration may carry: none (empty),
\* one naming every class, one naming only some of the classes
Id2LabelConfigs ==
    { <<>>,
      (0 :> "PRESENT" @@ 1 :> "ABSENT" @@ 2 :> "POSSIBLE"),
      (0 :> "PRESENT" @@ 1 :> "ABSENT") }

\* one word id per class the classifier knows
Words == 1..NumLabels

Sentences == UNION { [1..n -> Words] : n \in 0..MaxSentenceLen }

SentenceLists == UNION { [1..n -> Sentences] : n \in 0..MaxBatch }

\* steps of load_model at which the underlying library may raise
LoadFaults == {"none", "tokenizer", "weights", "to_device", "eval", "labels"}

\* outcomes of one forward pass of the external classifier: logits, an
\* exception, or NaN logits
InferenceFaults == {"ok", "raise", "nan"}

NotLoadedError == "Model not loaded. Call load_model() first."

(* ------------------------- app/model.py -------------------------------- *)

Handle == [model |-> _model, tokenizer |-> _tokenizer,
           device |-> _device, label_mapping |-> _label_mapping]

is_model_loaded(h) == h.model # None

\* load_model on handle h; cuda and cfg are what torch.cuda.is_available()
\* and the fetched configuration answer; fault is the step that raises.
\* Every assignment made before the raising step is kept: the except clause
\* logs and re-raises.
load_model(h, cuda, cfg, fault) ==
    IF h.model # None
    THEN [handle |-> h, raised |-> FALSE, fetched |-> FALSE]
    ELSE
      LET dev == IF cuda THEN "cuda" ELSE "cpu"
          h1 == [h EXCEPT !.device = Some(dev)]
          h2 == [h1 EXCEPT !.tokenizer = Some("tokenizer")]
          h3 == [h2 EXCEPT !.model =
                    Some([device |-> "cpu", mode |-> "fetched", id2label |-> cfg])]
          h4 == [h3 EXCEPT !.model = Some([h3.model[1] EXCEPT !.device = dev])]
          h5 == [h4 EXCEPT !.model = Some([h4.model[1] EXCEPT !.mode = "eval"])]
          h6 == [h5 EXCEPT !.label_mapping =
                    IF DOMAIN h5.model[1].id2label # {}
                    THEN Some(h5.model[1].id2label)
                    ELSE Some(DefaultLabelMapping)]
      IN CASE fault = "tokenizer" -> [handle |-> h1, raised |-> TRUE, fetched |-> TRUE]
           [] fault = "weights"   -> [handle |-> h2, raised |-> TRUE, fetched |-> TRUE]
           [] fault = "to_device" -> [handle |-> h3, raised |-> TRUE, fetched |-> TRUE]
           [] fault = "eval"      -> [handle |-> h4, raised |-> TRUE, fetched |-> TRUE]
           [] fault = "labels"    -> [handle |-> h5, raised |-> TRUE, fetched |-> TRUE]
           [] OTHER               -> [handle |-> h6, raised |-> FALSE, fetched |-> TRUE]

(* the tokenizer call: truncation at max_length, padding to the longest row *)

Min(a, b) == IF a < b THEN a ELSE b

Truncate(sentence, max_length) == SubSeq(sentence, 1, Min(Len(sentence), max_length))

RECURSIVE MaxLen(_)
MaxLen(rows) ==
    IF rows = <<>> THEN 0
    ELSE LET m == MaxLen(Tail(rows))
         IN IF Len(Head(rows)) > m THEN Len(Head(rows)) ELSE m

\* _tokenizer(texts, return_tensors="pt", truncation=True, max_length=512,
\* padding=True): one row per text, padded with id 0 under attention mask 0
Tokenizer(texts) ==
    LET rows == [i \in 1..Len(texts) |-> Truncate(texts[i], MAX_LENGTH)]
        width == MaxLen(rows)
    IN [input_ids |->
            [i \in 1..Len(rows) |->
                [j \in 1..width |-> IF j <= Len(rows[i]) THEN rows[i][j] ELSE 0]],
        attention_mask |->
            [i \in 1..Len(rows) |->
                [j \in 1..width |-> IF j <= Len(rows[i]) THEN 1 ELSE 0]]]

Classes == 0..(NumLabels - 1)

\* the external classifier on one row: the logit of class c counts the
\* attended positions whose word id falls in class c
RowLogits(ids, mask) ==
    [c \in Classes |->
        Cardinality({j \in 1..Len(ids) : mask[j] = 1 /\ ids[j] % NumLabels = c})]

\* _model(**inputs).logits: one row of logits per input row
Forward(inputs) ==
    [i \in 1..Len(inputs.input_ids) |->
        RowLogits(inputs.input_ids[i], inputs.attention_mask[i])]

RECURSIVE Pow2(_)
Pow2(n) == IF n = 0 THEN 1 ELSE 2 * Pow2(n - 1)

RECURSIVE SumExp(_, _)
SumExp(row, c) == IF c < 0 THEN 0 ELSE Pow2(row[c]) + SumExp(row, c - 1)

\* torch.softmax(logits, dim=-1), with base 2 for e; NaN logits give NaN
Softmax(logits, nan) ==
    [i \in 1..Len(logits) |->
        [c \in Classes |->
            IF nan THEN <<0, 0>>
            ELSE <<Pow2(logits[i][c]), SumExp(logits[i], NumLabels - 1)>>]]

\* torch.argmax over one row (all entries share a denominator): the first
\* index holding the largest entry
Argmax(row) ==
    CHOOSE c \in Classes :
        /\ \A d \in Classes : row[d][1] <= row[c][1]
        /\ \A d \in Classes : d < c => row[d][1] < row[c][1]

\* dict.get(key, default) with the UNKNOWN_{idx} default
LabelOf(mapping, idx) ==
    IF idx \in DOMAIN mapping THEN mapping[idx] ELSE "UNKNOWN_" \o ToString(idx)

Raise(msg) == [raised |-> TRUE, error |-> msg, value |-> <<>>]

Return(v) == [raised |-> FALSE, error |-> "", value |-> v]

\* what the try block of predict / predict_batch raises before any result
\* is built, "" when nothing does
InferenceError(h, fault) ==
    IF h.model[1].device # h.device[1]
    THEN "Expected all tensors to be on the same device"
    ELSE IF fault = "raise" THEN "inference error"
    ELSE IF h.label_mapping = None
    THEN "'NoneType' object has no attribute 'get'"
    ELSE ""

predict(h, sentence, fault) ==
    IF h.model = None \/ h.tokenizer = None THEN Raise(NotLoadedError)
    ELSE IF InferenceError(h, fault) # "" THEN Raise(InferenceError(h, fault))
    ELSE
      LET inputs == Tokenizer(<<sentence>>)
          probabilities == Softmax(Forward(inputs), fault = "nan")
          predicted_class == Argmax(probabilities[1])
          confidence == probabilities[1][predicted_class]
      IN Return([label |-> LabelOf(h.label_mapping[1], predicted_class),
                 score |-> confidence])

\* seeded fault: every result is labelled with the first row's class
predict_batch_first_label(h, sentences, fault) ==
    IF h.model = None \/ h.tokenizer = None THEN Raise(NotLoadedError)
    ELSE IF InferenceError(h, fault) # "" THEN Raise(InferenceError(h, fault))
    ELSE
      LET inputs == Tokenizer(sentences)
          probabilities == Softmax(Forward(inputs), fault = "nan")
          predicted_classes == [i \in 1..Len(probabilities) |-> Argmax(probabilities[i])]
          confidences ==
              [i \in 1..Len(probabilities) |-> probabilities[i][predicted_classes[i]]]
      IN Return([i \in 1..Len(predicted_classes) |->
                    [label |-> LabelOf(h.label_mapping[1], predicted_classes[1]),
                     score |-> confidences[i]]])

predict_batch(h, sentences, fault) ==
    IF h.model = None \/ h.tokenizer = None THEN Raise(NotLoadedError)
    ELSE IF InferenceError(h, fault) # "" THEN Raise(InferenceError(h, fault))
    ELSE
      LET inputs == Tokenizer(sentences)
          probabilities == Softmax(Forward(inputs), fault = "nan")
          predicted_classes == [i \in 1..Len(probabilities) |-> Argmax(probabilities[i])]
          \* torch.max(probabilities, dim=-1)[0]: the entry argmax points at
          confidences ==
              [i \in 1..Len(probabilities) |-> probabilities[i][predicted_classes[i]]]
      IN Return([i \in 1..Len(predicted_classes) |->
                    [label |-> LabelOf(h.label_mapping[1], predicted_classes[i]),
                     score |-> confidences[i]]])

(* ------------------------ app/schemas.py ------------------------------- *)

\* JSON bodies: a field is None when the body does not carry it
PredictBodies == { [sentence |-> None] } \cup { [sentence |-> Some(s)] : s \in Sentences }

BatchBodies ==
    { [sentences |-> None] } \cup { [sentences |-> Some(l)] : l \in SentenceLists }

\* sentence: str = Field(..., min_length=1)
PredictionRequest(body) == body.sentence # None /\ Len(body.sentence[1]) >= 1

\* seeded fault: the list field without its min_length
BatchPredictionRequest_any_length(body) == body.sentences # None

\* sentences: List[str] = Field(..., min_length=1)
BatchPredictionRequest(body) == body.sentences # None /\ Len(body.sentences[1]) >= 1

\* seeded fault: the score field without its ge/le bounds
PredictionResponse_unbounded(p) == TRUE

\* score: float = Field(..., ge=0.0, le=1.0); NaN satisfies neither bound
PredictionResponse(p) ==
    /\ p.score[2] > 0
    /\ 0 <= p.score[1]
    /\ p.score[1] <= p.score[2]

(* -------------------------- app/main.py -------------------------------- *)

Response(status, body, calls, error) ==
    [status |-> status, body |-> body, adapter_calls |-> calls, adapter_error |-> error]

\* seeded fault: the except clause of lifespan logs and does not re-raise
lifespan_swallow(loaded) == "serving"

\* the lifespan context: yields (serving starts) only when load_model returned
lifespan(loaded) == IF loaded.raised THEN "aborted" ELSE "serving"

root ==
    Response(200, [message |-> "Clinical Assertion Negation BERT API",
                   version |-> "1.0.0"], 0, "")

\* seeded fault: the status string does not follow is_model_loaded()
health_check_always_healthy(h) ==
    Response(200, [status |-> "healthy", model_loaded |-> is_model_loaded(h)], 0, "")

health_check(h) ==
    Response(200, [status |-> IF is_model_loaded(h) THEN "healthy" ELSE "unhealthy",
                   model_loaded |-> is_model_loaded(h)], 0, "")

\* seeded fault: no readiness check before the adapter is called
predict_sentence_ungated(h, body, fault) ==
    IF ~PredictionRequest(body)
    THEN Response(422, [detail |-> "validation error"], 0, "")
    ELSE
      LET r == predict(h, body.sentence[1], fault)
      IN IF r.raised
         THEN Response(500, [detail |-> "Prediction failed: " \o r.error], 1, r.error)
         ELSE IF ~PredictionResponse(r.value)
         THEN Response(500, [detail |-> "Prediction failed: validation error"], 1, "")
         ELSE Response(200, r.value, 1, "")

predict_sentence(h, body, fault) ==
    IF ~PredictionRequest(body)
    THEN Response(422, [detail |-> "validation error"], 0, "")
    ELSE IF ~is_model_loaded(h)
    THEN Response(503, [detail |-> "Model not loaded"], 0, "")
    ELSE
      LET r == predict(h, body.sentence[1], fault)
      IN IF r.raised
         THEN Response(500, [detail |-> "Prediction failed: " \o r.error], 1, r.error)
         ELSE IF ~PredictionResponse(r.value)
         THEN Response(500, [detail |-> "Prediction failed: validation error"], 1, "")
         ELSE Response(200, r.value, 1, "")

\* seeded fault: an adapter error is answered with the results so far
predict_batch_sentences_swallow(h, body, fault) ==
    IF ~BatchPredictionRequest(body)
    THEN Response(422, [detail |-> "validation error"], 0, "")
    ELSE IF ~is_model_loaded(h)
    THEN Response(503, [detail |-> "Model not loaded"], 0, "")
    ELSE
      LET r == predict_batch(h, body.sentences[1], fault)
      IN IF r.raised
         THEN Response(200, [predictions |-> <<>>], 1, r.error)
         ELSE IF \E i \in 1..Len(r.value) : ~PredictionResponse(r.value[i])
         THEN Response(500, [detail |-> "Batch prediction failed: validation error"], 1, "")
         ELSE Response(200, [predictions |-> r.value], 1, "")

predict_batch_sentences(h, body, fault) ==
    IF ~BatchPredictionRequest(body)
    THEN Response(422, [detail |-> "validation error"], 0, "")
    ELSE IF ~is_model_loaded(h)
    THEN Response(503, [detail |-> "Model not loaded"], 0, "")
    ELSE
      LET r == predict_batch(h, body.sentences[1], fault)
      IN IF r.raised
         THEN Response(500, [detail |-> "Batch prediction failed: " \o r.error], 1, r.error)
         ELSE IF \E i \in 1..Len(r.value) : ~PredictionResponse(r.value[i])
         THEN Response(500, [detail |-> "Batch prediction failed: validation error"], 1, "")
         ELSE Response(200, [predictions |-> r.value], 1, "")

(* ------------------------- state machine ------------------------------- *)

Init ==
    /\ _model = None
    /\ _tokenizer = None
    /\ _device = None
    /\ _label_mapping = None
    /\ cuda_available \in BOOLEAN
    /\ hub_id2label \in Id2LabelConfigs
    /\ viaLifespan \in BOOLEAN
    /\ phase = IF viaLifespan THEN "starting" ELSE "serving"
    /\ loadSucceeded = FALSE
    /\ inflight = None
    /\ last = [op |-> "none"]

SetHandle(h) ==
    /\ _model' = h.model
    /\ _tokenizer' = h.tokenizer
    /\ _device' = h.device
    /\ _label_mapping' = h.label_mapping

LoadRecord(op, r) ==
    [op |-> op, raised |-> r.raised, fetched |-> r.fetched,
     loaded |-> is_model_loaded(Handle), handle_before |-> Handle]

RequestRecord(op, body, resp) ==
    [op |-> op, req |-> body, status |-> resp.status, body |-> resp.body,
     adapter_calls |-> resp.adapter_calls, adapter_error |-> resp.adapter_error,
     loaded |-> is_model_loaded(Handle), handle_before |-> Handle]

\* process startup through the application lifespan
Lifespan ==
    /\ viaLifespan
    /\ phase = "starting"
    /\ \E fault \in LoadFaults :
         LET r == load_model(Handle, cuda_available, hub_id2label, fault)
         IN /\ SetHandle(r.handle)
            /\ phase' = lifespan(r)
            /\ loadSucceeded' = (loadSucceeded \/ (r.fetched /\ ~r.raised))
            /\ last' = LoadRecord("lifespan", r)
    /\ UNCHANGED <<cuda_available, hub_id2label, viaLifespan, inflight>>

\* load_model() called directly on an application whose lifespan is not run
\* (the test fixture, a script)
LoadModel ==
    /\ ~viaLifespan
    /\ inflight = None
    /\ \E fault \in LoadFaults :
         LET r == load_model(Handle, cuda_available, hub_id2label, fault)
         IN /\ SetHandle(r.handle)
            /\ loadSucceeded' = (loadSucceeded \/ (r.fetched /\ ~r.raised))
            /\ last' = LoadRecord("load_model", r)
    /\ UNCHANGED <<cuda_available, hub_id2label, viaLifespan, phase, inflight>>

\* a client sends a request to the serving application
Receive ==
    /\ phase = "serving"
    /\ inflight = None
    /\ last.op = "none"
    /\ \/ inflight' = Some([op |-> "root"])
       \/ inflight' = Some([op |-> "health"])
       \/ \E body \in PredictBodies : inflight' = Some([op |-> "predict", body |-> body])
       \/ \E body \in BatchBodies : inflight' = Some([op |-> "batch", body |-> body])
    /\ UNCHANGED <<_model, _tokenizer, _device, _label_mapping, cuda_available,
                   hub_id2label, viaLifespan, phase, loadSucceeded, last>>

Root ==
    /\ inflight # None
    /\ inflight[1].op = "root"
    /\ last' = RequestRecord("root", None, root)
    /\ inflight' = None
    /\ UNCHANGED <<_model, _tokenizer, _device, _label_mapping,
                   cuda_available, hub_id2label, viaLifespan, phase, loadSucceeded>>

HealthCheck ==
    /\ inflight # None
    /\ inflight[1].op = "health"
    /\ last' = RequestRecord("health", None, health_check(Handle))
    /\ inflight' = None
    /\ UNCHANGED <<_model, _tokenizer, _device, _label_mapping,
                   cuda_available, hub_id2label, viaLifespan, phase, loadSucceeded>>

PredictSentence ==
    /\ inflight # None
    /\ inflight[1].op = "predict"
    /\ \E fault \in InferenceFaults :
         last' = RequestRecord("predict", inflight[1].body,
                               predict_sentence(Handle, inflight[1].body, fault))
    /\ inflight' = None
    /\ UNCHANGED <<_model, _tokenizer, _device, _label_mapping,
                   cuda_available, hub_id2label, viaLifespan, phase, loadSucceeded>>

PredictBatchSentences ==
    /\ inflight # None
    /\ inflight[1].op = "batch"
    /\ \E fault \in InferenceFaults :
         last' = RequestRecord("batch", inflight[1].body,
                               predict_batch_sentences(Handle, inflight[1].body, fault))
    /\ inflight' = None
    /\ UNCHANGED <<_model, _tokenizer, _device, _label_mapping,
                   cuda_available, hub_id2label, viaLifespan, phase, loadSucceeded>>

\* the caller takes the outcome of the last operation
Deliver ==
    /\ last.op # "none"
    /\ last' = [op |-> "none"]
    /\ UNCHANGED <<_model, _tokenizer, _device, _label_mapping, cuda_available,
                   hub_id2label, viaLifespan, phase, loadSucceeded, inflight>>

\* the lifespan context exits
Shutdown ==
    /\ viaLifespan
    /\ phase = "serving"
    /\ inflight = None
    /\ phase' = "stopped"
    /\ UNCHANGED <<_model, _tokenizer, _device, _label_mapping, cuda_available,
                   hub_id2label, viaLifespan, loadSucceeded, inflight, last>>

Next ==
    \/ Lifespan
    \/ LoadModel
    \/ Receive
    \/ Root
    \/ HealthCheck
    \/ PredictSentence
    \/ PredictBatchSentences
    \/ Deliver
    \/ Shutdown

Spec == Init /\ [][Next]_vars

TypeOK ==
    /\ phase \in {"starting", "serving", "aborted", "stopped"}
    /\ last.op \in {"none", "lifespan", "load_model", "root", "health", "predict", "batch"}

(* --------------------------- properties -------------------------------- *)

PredictionOps == {"predict", "batch"}

RequestOps == {"root", "health", "predict", "batch"}

LoadOps == {"lifespan", "load_model"}

\* the body of the last prediction request passed its schema
LastBodyValid ==
    IF last.op = "predict" THEN PredictionRequest(last.req)
    ELSE BatchPredictionRequest(last.req)

InUnit(score) == score[2] > 0 /\ 0 <= score[1] /\ score[1] <= score[2]

AllUnset ==
    _model = None /\ _tokenizer = None /\ _device = None /\ _label_mapping = None

AllSet ==
    _model # None /\ _tokenizer # None /\ _device # None /\ _label_mapping # None

\* C1: a schema-valid POST /predict or /predict/batch handled while
\* is_model_loaded() is false is answered 503 without calling the adapter,
\* and no endpoint ever surfaces the adapter's own "Model not loaded" error.
C1_ReadinessGating ==
    last.op \in PredictionOps =>
        /\ (LastBodyValid /\ ~last.loaded) =>
               (last.status = 503 /\ last.adapter_calls = 0)
        /\ last.adapter_error # NotLoadedError

\* a valid single prediction was refused while only the tokenizer was cached
C1_Witness ==
    /\ last.op = "predict"
    /\ PredictionRequest(last.req)
    /\ ~last.loaded
    /\ _tokenizer # None
    /\ last.status = 503

\* C2: GET /health always answers 200, with status "healthy" exactly when
\* is_model_loaded() is true and model_loaded equal to that truth value.
C2_HealthReflectsReadiness ==
    last.op = "health" =>
        /\ last.status = 200
        /\ last.body.status \in {"healthy", "unhealthy"}
        /\ (last.body.status = "healthy") <=> is_model_loaded(Handle)
        /\ last.body.model_loaded = is_model_loaded(Handle)

\* health answered "unhealthy" after a load attempt that left the tokenizer
C2_Witness ==
    /\ last.op = "health"
    /\ last.body.status = "unhealthy"
    /\ _tokenizer # None

\* C3: is_model_loaded() is true exactly from the first successful
\* load_model() on, and a load_model() call made while a handle exists does
\* not fetch and leaves the four cached fields unchanged.
C3_ReadyIffLoadSucceeded ==
    /\ is_model_loaded(Handle) <=> loadSucceeded
    /\ (last.op \in LoadOps /\ last.loaded) =>
           (~last.fetched /\ ~last.raised /\ Handle = last.handle_before)

\* C4: after a load_model() call that raised, the adapter is not loaded, no
\* field of the handle is retained, and the next call fetches again.
C4_FailedLoadLeavesUnloaded ==
    (last.op \in LoadOps /\ last.raised) =>
        /\ ~is_model_loaded(Handle)
        /\ AllUnset
        /\ load_model(Handle, cuda_available, hub_id2label, "none").fetched

\* C5: a 200 answer of POST /predict/batch carries one prediction per input
\* sentence, the i-th labelled as predict labels the i-th sentence.
C5_BatchMatchesSingle ==
    (last.op = "batch" /\ last.status = 200) =>
        LET xs == last.req.sentences[1]
            ps == last.body.predictions
        IN /\ Len(ps) = Len(xs)
           /\ \A i \in 1..Len(xs) :
                /\ ~predict(Handle, xs[i], "ok").raised
                /\ ps[i].label = predict(Handle, xs[i], "ok").value.label

\* a batch of two sentences of different lengths got two different labels
C5_Witness ==
    /\ last.op = "batch"
    /\ last.status = 200
    /\ Len(last.req.sentences[1]) = 2
    /\ Len(last.req.sentences[1][1]) # Len(last.req.sentences[1][2])
    /\ last.body.predictions[1].label # last.body.predictions[2].label

\* C6: a POST /predict without a sentence or with the empty one, and a POST
\* /predict/batch without sentences or with the empty list, is answered 422
\* and the adapter is not called, loaded or not.
C6_SchemaRejection ==
    /\ (last.op = "predict" /\ (last.req.sentence = None \/ last.req.sentence[1] = <<>>))
           => (last.status = 422 /\ last.adapter_calls = 0)
    /\ (last.op = "batch" /\ (last.req.sentences = None \/ last.req.sentences[1] = <<>>))
           => (last.status = 422 /\ last.adapter_calls = 0)

\* an empty list was rejected while the model was loaded
C6_Witness ==
    /\ last.op = "batch"
    /\ last.req.sentences # None
    /\ last.req.sentences[1] = <<>>
    /\ last.loaded
    /\ last.status = 422

\* C7: with the model loaded, an adapter error is answered 500 with a detail
\* after a single adapter call and leaves the handle as it was; a batch is
\* answered 200 with one prediction per sentence or an error without any.
C7_InferenceFailure ==
    /\ (last.op \in PredictionOps /\ last.loaded /\ last.adapter_error # "") =>
           /\ last.status = 500
           /\ "detail" \in DOMAIN last.body
           /\ last.body.detail # ""
           /\ last.adapter_calls = 1
           /\ Handle = last.handle_before
           /\ is_model_loaded(Handle)
    /\ last.op = "batch" =>
           IF last.status = 200
           THEN Len(last.body.predictions) = Len(last.req.sentences[1])
           ELSE "predictions" \notin DOMAIN last.body

\* a batch of two failed in the forward pass of a fully loaded model
C7_Witness ==
    /\ last.op = "batch"
    /\ loadSucceeded
    /\ last.adapter_error = "inference error"
    /\ Len(last.req.sentences[1]) = 2
    /\ last.status = 500

\* C8: every score of a 200 answer of POST /predict and POST /predict/batch
\* lies in [0, 1].
C8_ScoreInUnitInterval ==
    /\ (last.op = "predict" /\ last.status = 200) => InUnit(last.body.score)
    /\ (last.op = "batch" /\ last.status = 200) =>
           \A i \in 1..Len(last.body.predictions) :
               InUnit(last.body.predictions[i].score)

\* a single prediction was answered with a score strictly between 0 and 1
C8_Witness ==
    /\ last.op = "predict"
    /\ last.status = 200
    /\ 0 < last.body.score[1]
    /\ last.body.score[1] < last.body.score[2]

\* C9: in a process started through the lifespan no request is received or
\* handled before load_model() has returned normally; a failed load aborts
\* startup and nothing is served.
C9_StartupOrdering ==
    viaLifespan =>
        /\ phase \in {"serving", "stopped"} => (loadSucceeded /\ AllSet)
        /\ phase \in {"starting", "aborted"} =>
               (inflight = None /\ last.op \notin RequestOps)
        /\ phase = "aborted" => ~loadSucceeded

\* a lifespan-started process answered a prediction
C9_Witness ==
    /\ viaLifespan
    /\ last.op = "predict"
    /\ last.status = 200

\* C10: the four cached fields are all unset or all set.
C10_HandleAllOrNothing ==
    /\ AllUnset \/ AllSet
    /\ is_model_loaded(Handle) =>
           (_tokenizer # None /\ _device # None /\ _label_mapping # None)

====
